---- MODULE Spec2Model ----
(***************************************************************************)
(* Study-group matching (backend/matching.py, backend/db.py,               *)
(* backend/app.py).                                                        *)
(*                                                                         *)
(* Four specifications are defined over one set of variables:              *)
(*   SpecGroups  form_groups_for_course run statement by statement on      *)
(*               every roster of a bounded family;                         *)
(*   SpecWide    the same steps on longer rosters of fewer profiles, so    *)
(*               that several groups are formed;                           *)
(*   SpecSerial  one POST /api/match request at a time and the POST       *)
(*               /api/students requests over the SQLite tables, each      *)
(*               SELECT and each db.execute / db.executemany a step of    *)
(*               its own;                                                  *)
(*   Spec        the same handlers and GET /api/groups served by the       *)
(*               threads of the Flask server, two runs interleaving.       *)
(***************************************************************************)
EXTENDS Integers, Sequences, FiniteSets, TLC

\* ------------------------------------------------------------------------
\* Bounds of the model
\* ------------------------------------------------------------------------

\* longest roster handed to form_groups_for_course under SpecGroups
MaxRoster == 4

\* student ids of the rosters: 1, 9 and 17 share a slot in an 8-slot set
IdSet == {1, 2, 3, 9, 17}

\* (preferred_group_size, availability_timeslot_ids) of the roster students:
\* preferences below, inside and above 2..5, overlapping and disjoint slots
Profiles ==
    { <<1, {1}>>, <<3, {1, 2}>>, <<5, {2}>>, <<11, {}>> }

\* POST /api/match requests started in one behaviour
MaxRuns == 2

\* students registered before a behaviour of SpecSerial starts (or none)
InitStudents == 4

\* POST /api/students requests handled in one behaviour
MaxUpserts == 2

\* POST /api/students requests handled in one behaviour of Spec
MaxRaceUpserts == 1

\* students registered before a behaviour of Spec starts (or none)
RaceStudents == 2

\* longest roster handed to form_groups_for_course under SpecWide
MaxWide == 7

\* student ids of the rosters of SpecWide, a roster of n takes the first n of
\* an order: ascending ids, and ids that share slots of the set's table
WideIdOrders ==
    { <<1, 2, 3, 4, 5, 6, 7, 8, 9>>, <<9, 2, 17, 1, 3, 10, 4, 25, 6>> }

\* profiles of the rosters of SpecWide: the first and the last score 0
\* against each other
WideProfiles == { <<1, {1}>>, <<3, {1, 2}>>, <<11, {}>> }

\* students registered, named by the order of first registration
MaxStudents == 4

\* request bodies of POST /api/students: preferred_group_size (below the
\* range 2..5, so the handler's clamp acts), course_ids,
\* availability_timeslot_ids
PrefInputs == {1}

CourseInputs == { <<>>, <<1>>, <<2, 1>>, <<4>> }

AvailInputs == { <<1>>, <<9>> }

\* ------------------------------------------------------------------------
\* Arithmetic helpers
\* ------------------------------------------------------------------------

Max2(a, b) == IF a >= b THEN a ELSE b

Min2(a, b) == IF a <= b THEN a ELSE b

Abs(x) == IF x < 0 THEN -x ELSE x

Range(s) == { s[i] : i \in DOMAIN s }

RECURSIVE SumSeq(_)
SumSeq(s) == IF s = <<>> THEN 0 ELSE Head(s) + SumSeq(Tail(s))

\* ------------------------------------------------------------------------
\* models.Student
\* ------------------------------------------------------------------------

Student(i, p, av) ==
    [id |-> i, preferred_group_size |-> p, availability_timeslot_ids |-> av]

\* ------------------------------------------------------------------------
\* matching.compatibility
\* ------------------------------------------------------------------------

compatibility_offbyone(a, b) ==
    LET overlap   == Cardinality(a.availability_timeslot_ids
                                 \cap b.availability_timeslot_ids)
        size_diff == Abs(a.preferred_group_size - b.preferred_group_size)
        penalty   == IF size_diff >= 2 THEN size_diff ELSE 0
    IN  Max2(0, 5 + overlap - penalty)

compatibility(a, b) ==
    LET base_score == 5
        overlap   == Cardinality(a.availability_timeslot_ids
                                 \cap b.availability_timeslot_ids)
        size_diff == Abs(a.preferred_group_size - b.preferred_group_size)
        penalty   == IF size_diff >= 2 THEN size_diff - 1 ELSE 0
    IN  Max2(0, base_score + overlap - penalty)

\* by_id = {s.id: s for s in students}; a later student of the same id wins
by_id(studs, i) ==
    LET k == CHOOSE k \in DOMAIN studs :
                 /\ studs[k].id = i
                 /\ \A m \in DOMAIN studs : studs[m].id = i => m <= k
    IN  studs[k]

\* the two loops over the positions i < j: scores[(s1.id, s2.id)] = score
\* and scores[(s2.id, s1.id)] = score, a later write replacing an earlier
\* one of the same key
RECURSIVE matrix_loop(_, _, _, _)
matrix_loop(sc, studs, i, j) ==
    IF i > Len(studs) THEN sc
    ELSE IF j > Len(studs) THEN matrix_loop(sc, studs, i + 1, i + 2)
    ELSE LET s1    == studs[i]
             s2    == studs[j]
             score == compatibility(s1, s2)
         IN  matrix_loop((<<s2.id, s1.id>> :> score)
                            @@ (<<s1.id, s2.id>> :> score) @@ sc,
                         studs, i, j + 1)

build_compatibility_matrix(studs) == matrix_loop(<<>>, studs, 1, 2)

\* scores.get((a, b), 0)
scores_get(sc, a, b) == IF <<a, b>> \in DOMAIN sc THEN sc[<<a, b>>] ELSE 0

\* ------------------------------------------------------------------------
\* Target size: int(statistics.median(clamped prefs)), clamped again
\* ------------------------------------------------------------------------

\* insert x into an ascending sequence
RECURSIVE InsertSorted(_, _)
InsertSorted(x, s) ==
    IF s = <<>> THEN <<x>>
    ELSE IF x <= Head(s) THEN <<x>> \o s
    ELSE <<Head(s)>> \o InsertSorted(x, Tail(s))

RECURSIVE sorted(_)
sorted(s) == IF s = <<>> THEN <<>> ELSE InsertSorted(Head(s), sorted(Tail(s)))

clamped_prefs(studs) ==
    [ i \in DOMAIN studs |-> Max2(2, Min2(5, studs[i].preferred_group_size)) ]

target_size_of_highmedian(studs) ==
    LET data == sorted(clamped_prefs(studs))
        n    == Len(data)
    IN  IF n = 0 THEN 3 ELSE Max2(2, Min2(5, data[(n \div 2) + 1]))

\* statistics.median: the middle value, or the mean of the two middle values
\* (a float); int() drops the fraction (the values are positive);
\* StatisticsError on no data gives 3
target_size_of(studs) ==
    LET data == sorted(clamped_prefs(studs))
        n    == Len(data)
        med  == IF n % 2 = 1 THEN data[(n \div 2) + 1]
                ELSE (data[n \div 2] + data[(n \div 2) + 1]) \div 2
    IN  IF n = 0 THEN 3 ELSE Max2(2, Min2(5, med))

\* ------------------------------------------------------------------------
\* The 'unassigned' set of ids: CPython's open-addressing set table.
\* A table is a sequence of slots (slot k of the C table is element k+1):
\* 0 is an unused slot, -1 a dummy left by remove, an id > 0 an active entry
\* (hash(id) = id).  Iteration visits the slots in table order.
\* ------------------------------------------------------------------------

set_empty == [ k \in 1..8 |-> 0 ]

\* slot found by the probe sequence: up to 9 linear probes when they fit
\* below the mask, then i = (i*5 + 1 + (perturb >> 5)) & mask
RECURSIVE set_find_slot(_, _, _)
set_find_slot(table, i, perturb) ==
    LET mask   == Len(table) - 1
        probes == IF i + 9 <= mask THEN 9 ELSE 0
        free   == { j \in i..(i + probes) : table[j + 1] = 0 }
        p      == perturb \div 32
    IN  IF free # {} THEN CHOOSE j \in free : \A m \in free : j <= m
        ELSE set_find_slot(table, (i * 5 + 1 + p) % (mask + 1), p)

set_insert_clean(table, key) ==
    [ table EXCEPT ![set_find_slot(table, key % Len(table), key) + 1] = key ]

RECURSIVE set_newsize(_, _)
set_newsize(size, minused) ==
    IF size > minused THEN size ELSE set_newsize(size * 2, minused)

RECURSIVE set_reinsert(_, _)
set_reinsert(keys, table) ==
    IF keys = <<>> THEN table
    ELSE set_reinsert(Tail(keys), set_insert_clean(table, Head(keys)))

IsActive(x) == x > 0

\* list(unassigned) / for other in unassigned
set_list(table) == SelectSeq(table, IsActive)

set_table_resize(table, minused) ==
    set_reinsert(set_list(table), [ k \in 1..set_newsize(8, minused) |-> 0 ])

\* set.add: keys already present are kept as they are; the table grows to the
\* first power of two above 4*used once fill*5 >= mask*3
set_add(table, key) ==
    IF key \in Range(table) THEN table
    ELSE LET t    == set_insert_clean(table, key)
             fill == Len(set_list(t))
         IN  IF fill * 5 < (Len(t) - 1) * 3 THEN t
             ELSE set_table_resize(t, fill * 4)

RECURSIVE set_from(_, _)
set_from(keys, table) ==
    IF keys = <<>> THEN table
    ELSE set_from(Tail(keys), set_add(table, Head(keys)))

\* {s.id for s in students}
set_of_ids(studs) == set_from([ i \in DOMAIN studs |-> studs[i].id ], set_empty)

\* unassigned.remove(key): the entry becomes a dummy
set_remove(table, key) ==
    [ k \in DOMAIN table |-> IF table[k] = key THEN -1 ELSE table[k] ]

\* "while unassigned" / "and unassigned"
set_nonempty(table) == set_list(table) # <<>>

\* ------------------------------------------------------------------------
\* matching.form_groups_for_course: the pieces of the loop
\* ------------------------------------------------------------------------

\* an average total / len, kept as the exact fraction <<total, len>>
avg_gt(a, b) == a[1] * b[2] > b[1] * a[2]

\* avg_compat(candidate_id, current_ids)
avg_compat(sc, candidate_id, current_ids) ==
    IF current_ids = <<>> THEN <<0, 1>>
    ELSE <<SumSeq([ k \in DOMAIN current_ids |->
                      scores_get(sc, candidate_id, current_ids[k]) ]),
           Len(current_ids)>>

\* total of sid against every other id of the unassigned set
seed_total(sc, sid, order) ==
    SumSeq([ k \in DOMAIN order |->
               IF order[k] = sid THEN 0 ELSE scores_get(sc, sid, order[k]) ])

\* for sid in list(unassigned): if total > best_seed_total: ...
RECURSIVE seed_scan(_, _, _, _, _)
seed_scan(sc, rest, order, best_seed_id, best_seed_total) ==
    IF rest = <<>> THEN best_seed_id
    ELSE LET total == seed_total(sc, Head(rest), order)
         IN  IF total > best_seed_total
             THEN seed_scan(sc, Tail(rest), order, Head(rest), total)
             ELSE seed_scan(sc, Tail(rest), order, best_seed_id, best_seed_total)

\* the seed of the next group; 0 stands for None
pick_seed(sc, table) ==
    seed_scan(sc, set_list(table), set_list(table), 0, -1)

\* for sid in list(unassigned): if score > best_score: ...
RECURSIVE candidate_scan(_, _, _, _, _)
candidate_scan(sc, rest, current_ids, best_candidate, best_score) ==
    IF rest = <<>> THEN best_candidate
    ELSE LET score == avg_compat(sc, Head(rest), current_ids)
         IN  IF avg_gt(score, best_score)
             THEN candidate_scan(sc, Tail(rest), current_ids, Head(rest), score)
             ELSE candidate_scan(sc, Tail(rest), current_ids,
                                 best_candidate, best_score)

\* the next member of the growing group; next(iter(unassigned)) when the
\* scan found none
pick_candidate(sc, table, current_ids) ==
    LET found == candidate_scan(sc, set_list(table), current_ids, 0, <<-1, 1>>)
    IN  IF found = 0 THEN Head(set_list(table)) ELSE found

RECURSIVE group_scan_last_tie(_, _, _, _, _)
group_scan_last_tie(grps, idx, lone_student, best_group_idx, best_group_score) ==
    IF idx > Len(grps) THEN best_group_idx
    ELSE LET group == grps[idx]
             total == SumSeq([ k \in DOMAIN group |->
                                 compatibility(lone_student, group[k]) ])
             avg   == <<total, Len(group)>>
         IN  IF ~avg_gt(best_group_score, avg)
             THEN group_scan_last_tie(grps, idx + 1, lone_student, idx, avg)
             ELSE group_scan_last_tie(grps, idx + 1, lone_student,
                                      best_group_idx, best_group_score)

\* for idx, group in enumerate(groups): if avg > best_group_score: ...
RECURSIVE group_scan(_, _, _, _, _)
group_scan(grps, idx, lone_student, best_group_idx, best_group_score) ==
    IF idx > Len(grps) THEN best_group_idx
    ELSE IF grps[idx] = <<>>
         THEN group_scan(grps, idx + 1, lone_student,
                         best_group_idx, best_group_score)
    ELSE LET group == grps[idx]
             total == SumSeq([ k \in DOMAIN group |->
                                 compatibility(lone_student, group[k]) ])
             avg   == <<total, Len(group)>>
         IN  IF avg_gt(avg, best_group_score)
             THEN group_scan(grps, idx + 1, lone_student, idx, avg)
             ELSE group_scan(grps, idx + 1, lone_student,
                             best_group_idx, best_group_score)

merge_leftover_drop(grps) ==
    IF Len(grps) >= 2 /\ Len(grps[Len(grps)]) = 1
    THEN SubSeq(grps, 1, Len(grps) - 1)
    ELSE grps

merge_leftover_skip(grps) == grps

\* lines 157-172: a last group of one student is popped and the student is
\* appended to the group of best average compatibility (indices here are
\* 1-based, best_group_idx = 0 of the code is group 1)
merge_leftover(grps) ==
    IF Len(grps) >= 2 /\ Len(grps[Len(grps)]) = 1
    THEN LET lone         == grps[Len(grps)]
             rest         == SubSeq(grps, 1, Len(grps) - 1)
             lone_student == lone[1]
             best         == group_scan(rest, 1, lone_student, 1, <<-1, 1>>)
         IN  [ rest EXCEPT ![best] = Append(rest[best], lone_student) ]
    ELSE grps

RECURSIVE grow_group_positive_only(_, _, _, _)
grow_group_positive_only(sc, table, current_ids, target) ==
    IF Len(current_ids) < target /\ set_nonempty(table)
    THEN LET c == pick_candidate(sc, table, current_ids)
         IN  IF avg_compat(sc, c, current_ids)[1] > 0
             THEN grow_group_positive_only(sc, set_remove(table, c),
                                           Append(current_ids, c), target)
             ELSE <<table, current_ids>>
    ELSE <<table, current_ids>>

\* the inner while: grow until target_size members or nobody is left
RECURSIVE grow_group(_, _, _, _)
grow_group(sc, table, current_ids, target) ==
    IF Len(current_ids) < target /\ set_nonempty(table)
    THEN LET c == pick_candidate(sc, table, current_ids)
         IN  grow_group(sc, set_remove(table, c), Append(current_ids, c), target)
    ELSE <<table, current_ids>>

\* [by_id[sid] for sid in current_group_ids]
group_of(studs, current_ids) ==
    [ k \in DOMAIN current_ids |-> by_id(studs, current_ids[k]) ]

\* the outer while
RECURSIVE form_loop(_, _, _, _, _)
form_loop(studs, sc, table, grps, target) ==
    IF ~set_nonempty(table) THEN grps
    ELSE LET seed == pick_seed(sc, table)
         IN  IF seed = 0 THEN grps
             ELSE LET g == grow_group(sc, set_remove(table, seed), <<seed>>, target)
                  IN  form_loop(studs, sc, g[1],
                                Append(grps, group_of(studs, g[2])), target)

\* form_groups_for_course(students) as a function of the roster
form_groups_for_course(studs) ==
    IF studs = <<>> THEN <<>>
    ELSE IF Len(studs) = 1 THEN <<studs>>
    ELSE merge_leftover(form_loop(studs, build_compatibility_matrix(studs),
                                  set_of_ids(studs), <<>>,
                                  target_size_of(studs)))

\* ------------------------------------------------------------------------
\* State
\* ------------------------------------------------------------------------

VARIABLES
    \* form_groups_for_course (SpecGroups)
    students,           \* the roster passed to form_groups_for_course
    pc,                 \* position inside form_groups_for_course
    target_size,
    scores,
    unassigned,
    current_group_ids,
    groups,
    \* the SQLite tables (Spec)
    db_students,              \* row id -> [email, preferred_group_size]
    db_student_courses,       \* student id -> its course ids in rowid order
    db_student_availability,  \* student id -> set of timeslot ids
    db_study_groups,          \* set of [id, course_id, group_index]
    db_study_group_members,   \* set of <<group_id, student_id>>
    seq_study_groups,         \* AUTOINCREMENT counter of study_groups
    \* the POST /api/match requests (Spec)
    mpc,                \* request -> position inside run_match / run_matching
    by_course,          \* request -> loaded rosters, <<course_id, roster>>
    course_idx,         \* request -> position in by_course.items()
    cur_groups,         \* request -> groups of the current course
    group_index,        \* request -> group_index of the current group
    group_id,           \* request -> lastrowid of the group INSERT
    result,             \* request -> <<course_id, member id lists>> so far
    before,             \* request -> the group tables when the run started
    students_base,      \* request -> rows of the first SELECT of the load
    course_rows,        \* request -> student id -> course ids of the second
    \* the POST /api/students request (Spec)
    upc,                \* position inside upsert_student
    ureq,               \* its locals: email, preferred_group_size,
                        \* course_ids, availability_ids, student_id
    \* the GET /api/groups request (Spec)
    rpc,
    group_rows,
    view,
    \* counters that bound the run
    runs,
    upserts

gvars == <<students, pc, target_size, scores, unassigned,
           current_group_ids, groups>>

dbvars == <<db_students, db_student_courses, db_student_availability,
            db_study_groups, db_study_group_members, seq_study_groups>>

mvars == <<mpc, by_course, course_idx, cur_groups, group_index, group_id,
           result, before, students_base, course_rows>>

uvars == <<upc, ureq>>

rvars == <<rpc, group_rows, view>>

cvars == <<runs, upserts>>

svars == <<dbvars, mvars, rvars, uvars, cvars>>

vars == <<gvars, svars>>

\* ------------------------------------------------------------------------
\* SpecGroups: form_groups_for_course, one statement group per action
\* ------------------------------------------------------------------------

InjectiveIds(n) ==
    { f \in [1..n -> IdSet] : \A i, j \in 1..n : i # j => f[i] # f[j] }

\* a roster of n distinct students
Roster(n, ids, pr) == [ i \in 1..n |-> Student(ids[i], pr[i][1], pr[i][2]) ]

\* concurrent POST /api/match requests (the server handles each request in
\* its own thread)
Procs == {1, 2}

GIdle ==
    /\ pc = "start"
    /\ target_size = 0
    /\ scores = <<>>
    /\ unassigned = set_empty
    /\ current_group_ids = <<>>
    /\ groups = <<>>

\* the rows of the courses table stored by db.init_db()
Courses == {1, 2, 3}

\* the rows of the timeslots table stored by db.init_db()
Timeslots == {1, 2, 3, 4, 5, 6}

\* the locals of upsert_student while no registration is handled
NoRequest ==
    [email |-> 0, preferred_group_size |-> 0, course_ids |-> <<>>,
     availability_ids |-> <<>>, student_id |-> 0]

\* the student tables after n registrations of new students, each with the
\* body (preferred_group_size 1, course_ids [1], availability [1]), handled
\* one after the other
Registered(n) ==
    /\ db_students = [ k \in 1..n |-> [email |-> k, preferred_group_size |-> 2] ]
    /\ db_student_courses = [ k \in 1..n |-> <<1>> ]
    /\ db_student_availability = [ k \in 1..n |-> {1} ]

\* the group tables after db.init_db() and no request in progress
SIdle ==
    /\ db_study_groups = {}
    /\ db_study_group_members = {}
    /\ seq_study_groups = 0
    /\ mpc = [ p \in Procs |-> "idle" ]
    /\ by_course = [ p \in Procs |-> <<>> ]
    /\ course_idx = [ p \in Procs |-> 0 ]
    /\ cur_groups = [ p \in Procs |-> <<>> ]
    /\ group_index = [ p \in Procs |-> 0 ]
    /\ group_id = [ p \in Procs |-> 0 ]
    /\ result = [ p \in Procs |-> <<>> ]
    /\ before = [ p \in Procs |-> <<{}, {}>> ]
    /\ students_base = [ p \in Procs |-> <<>> ]
    /\ course_rows = [ p \in Procs |-> <<>> ]
    /\ upc = "idle"
    /\ ureq = NoRequest
    /\ rpc = "idle"
    /\ group_rows = {}
    /\ view = {}
    /\ runs = 0
    /\ upserts = 0

\* every roster up to MaxRoster: every order of the ids, every profile
GInit ==
    /\ \E n \in 0..MaxRoster :
         \E ids \in InjectiveIds(n), pr \in [1..n -> Profiles] :
            students = Roster(n, ids, pr)
    /\ GIdle
    /\ Registered(0)
    /\ SIdle

\* lines 90-94: the empty and the one-student roster return at once
ReturnSmall ==
    /\ pc = "start"
    /\ Len(students) <= 1
    /\ groups' = IF students = <<>> THEN <<>> ELSE <<students>>
    /\ pc' = "done"
    /\ UNCHANGED <<students, target_size, scores, unassigned, current_group_ids>>
    /\ UNCHANGED svars

\* lines 96-108
Setup ==
    /\ pc = "start"
    /\ Len(students) >= 2
    /\ target_size' = target_size_of(students)
    /\ scores' = build_compatibility_matrix(students)
    /\ unassigned' = set_of_ids(students)
    /\ groups' = <<>>
    /\ pc' = "loop"
    /\ UNCHANGED <<students, current_group_ids>>
    /\ UNCHANGED svars

\* lines 118-155: one pass of the outer while: the seed, the growth of the
\* group, and the append to groups
FormGroup ==
    /\ pc = "loop"
    /\ set_nonempty(unassigned)
    /\ \E best_seed_id \in {pick_seed(scores, unassigned)} :
         /\ best_seed_id # 0
         /\ \E grown \in {grow_group(scores, set_remove(unassigned, best_seed_id),
                                     <<best_seed_id>>, target_size)} :
              /\ unassigned' = grown[1]
              /\ current_group_ids' = grown[2]
              /\ groups' = Append(groups, group_of(students, grown[2]))
    /\ UNCHANGED <<students, pc, target_size, scores>>
    /\ UNCHANGED svars

\* lines 118 and 157-174: the loop is left, the leftover is merged, return
Reconcile ==
    /\ pc = "loop"
    /\ ~set_nonempty(unassigned) \/ pick_seed(scores, unassigned) = 0
    /\ groups' = merge_leftover(groups)
    /\ pc' = "done"
    /\ UNCHANGED <<students, target_size, scores, unassigned, current_group_ids>>
    /\ UNCHANGED svars

GNext ==
    \/ ReturnSmall
    \/ Setup
    \/ FormGroup
    \/ Reconcile

SpecGroups == GInit /\ [][GNext]_vars

\* the statement-by-statement run agrees with the function
StepwiseAgrees == pc = "done" => groups = form_groups_for_course(students)

\* every roster of up to MaxWide students over WideIdOrders and WideProfiles
WInit ==
    /\ \E n \in 0..MaxWide :
         \E ids \in WideIdOrders, pr \in [1..n -> WideProfiles] :
            students = Roster(n, ids, pr)
    /\ GIdle
    /\ Registered(0)
    /\ SIdle

\* form_groups_for_course on the longer rosters
SpecWide == WInit /\ [][GNext]_vars

\* ------------------------------------------------------------------------
\* matching.load_students_by_course
\* ------------------------------------------------------------------------

\* by_course[cid].append(student) on the insertion-ordered defaultdict,
\* kept as a sequence of <<course_id, roster>>
dict_append(bc, cid, student) ==
    IF \E k \in DOMAIN bc : bc[k][1] = cid
    THEN [ k \in DOMAIN bc |->
             IF bc[k][1] = cid THEN <<cid, Append(bc[k][2], student)>> ELSE bc[k] ]
    ELSE Append(bc, <<cid, <<student>>>>)

RECURSIVE add_courses(_, _, _)
add_courses(bc, student, course_ids) ==
    IF course_ids = <<>> THEN bc
    ELSE add_courses(dict_append(bc, Head(course_ids), student),
                     student, Tail(course_ids))

\* for student in students_base.values(): for cid in student.course_ids
RECURSIVE group_by_course(_, _, _, _, _)
group_by_course(bc, sid, rows, courses, avail) ==
    IF sid > Len(rows) THEN bc
    ELSE group_by_course(
             add_courses(bc,
                         Student(sid, rows[sid].preferred_group_size, avail[sid]),
                         courses[sid]),
             sid + 1, rows, courses, avail)

load_students_by_course(rows, courses, avail) ==
    IF rows = <<>> THEN <<>>
    ELSE group_by_course(<<>>, 1, rows, courses, avail)

\* ------------------------------------------------------------------------
\* Spec: the handlers of app.py over the tables of db.py
\* ------------------------------------------------------------------------

SInit ==
    /\ students = <<>>
    /\ GIdle
    /\ \E n \in {0, InitStudents} : Registered(n)
    /\ SIdle

\* INSERT OR IGNORE of the values in order: a value already stored (primary
\* key (student_id, course_id)) is skipped
RECURSIVE insert_or_ignore(_, _)
insert_or_ignore(acc, vals) ==
    IF vals = <<>> THEN acc
    ELSE insert_or_ignore(IF Head(vals) \in Range(acc) THEN acc
                          ELSE Append(acc, Head(vals)),
                          Tail(vals))

\* the statement of upsert_student that follows the student row and the
\* DELETEs: `if course_ids:`, `if availability_ids:`, the final SELECT
after_row(req) ==
    IF req.course_ids # <<>> THEN "ins_courses"
    ELSE IF req.availability_ids # <<>> THEN "ins_avail"
    ELSE "select"

\* app.py 103-118: the request body is read, preferred_group_size is clamped
\* (a missing value, 0 here, counts as 3), and the student is looked up by
\* email; name and email are given
UpsertBegin(email, raw_size, course_ids, availability_ids) ==
    /\ upc = "idle"
    /\ upserts < MaxUpserts
    /\ upserts' = upserts + 1
    /\ LET size     == Max2(2, Min2(5, IF raw_size = 0 THEN 3 ELSE raw_size))
           existing == { k \in DOMAIN db_students : db_students[k].email = email }
       IN  /\ ureq' = [email |-> email, preferred_group_size |-> size,
                       course_ids |-> course_ids,
                       availability_ids |-> availability_ids,
                       student_id |-> IF existing = {} THEN 0
                                      ELSE CHOOSE k \in existing : TRUE]
           /\ upc' = IF existing = {} THEN "insert" ELSE "update"
    /\ UNCHANGED <<gvars, dbvars, mvars, rvars, runs>>

\* app.py 120-123: UPDATE students SET name, preferred_group_size
UpsertUpdate ==
    /\ upc = "update"
    /\ db_students' = [ db_students EXCEPT
                          ![ureq.student_id].preferred_group_size =
                              ureq.preferred_group_size ]
    /\ upc' = "del_courses"
    /\ UNCHANGED <<db_student_courses, db_student_availability,
                   db_study_groups, db_study_group_members, seq_study_groups>>
    /\ UNCHANGED <<gvars, mvars, rvars, ureq, cvars>>

\* app.py 125: DELETE FROM student_courses WHERE student_id = ?
UpsertDeleteCourses ==
    /\ upc = "del_courses"
    /\ db_student_courses' =
         [ db_student_courses EXCEPT ![ureq.student_id] = <<>> ]
    /\ upc' = "del_avail"
    /\ UNCHANGED <<db_students, db_student_availability,
                   db_study_groups, db_study_group_members, seq_study_groups>>
    /\ UNCHANGED <<gvars, mvars, rvars, ureq, cvars>>

\* app.py 126-128: DELETE FROM student_availability WHERE student_id = ?
UpsertDeleteAvailability ==
    /\ upc = "del_avail"
    /\ db_student_availability' =
         [ db_student_availability EXCEPT ![ureq.student_id] = {} ]
    /\ upc' = after_row(ureq)
    /\ UNCHANGED <<db_students, db_student_courses,
                   db_study_groups, db_study_group_members, seq_study_groups>>
    /\ UNCHANGED <<gvars, mvars, rvars, ureq, cvars>>

\* app.py 130-133: INSERT INTO students; lastrowid is the new id (the new
\* student has no row in the other two tables)
UpsertInsert ==
    /\ upc = "insert"
    /\ db_students' =
         Append(db_students,
                [email |-> ureq.email,
                 preferred_group_size |-> ureq.preferred_group_size])
    /\ db_student_courses' = Append(db_student_courses, <<>>)
    /\ db_student_availability' = Append(db_student_availability, {})
    /\ ureq' = [ ureq EXCEPT !.student_id = Len(db_students) + 1 ]
    /\ upc' = after_row(ureq)
    /\ UNCHANGED <<db_study_groups, db_study_group_members, seq_study_groups>>
    /\ UNCHANGED <<gvars, mvars, rvars, cvars>>

\* app.py 136-141: INSERT OR IGNORE INTO student_courses, one transaction
UpsertInsertCourses ==
    /\ upc = "ins_courses"
    /\ Range(ureq.course_ids) \subseteq Courses
    /\ db_student_courses' =
         [ db_student_courses EXCEPT
             ![ureq.student_id] = insert_or_ignore(@, ureq.course_ids) ]
    /\ upc' = IF ureq.availability_ids # <<>> THEN "ins_avail" ELSE "select"
    /\ UNCHANGED <<db_students, db_student_availability,
                   db_study_groups, db_study_group_members, seq_study_groups>>
    /\ UNCHANGED <<gvars, mvars, rvars, ureq, cvars>>

\* a course id without a row in courses (FOREIGN KEY course_id):
\* sqlite3.IntegrityError, no row of the statement is stored and the
\* handler is left; the statements before it stay committed
UpsertCoursesRejected ==
    /\ upc = "ins_courses"
    /\ ~ (Range(ureq.course_ids) \subseteq Courses)
    /\ upc' = "failed"
    /\ UNCHANGED <<gvars, dbvars, mvars, rvars, ureq, cvars>>

\* app.py 144-149: INSERT OR IGNORE INTO student_availability
UpsertInsertAvailability ==
    /\ upc = "ins_avail"
    /\ Range(ureq.availability_ids) \subseteq Timeslots
    /\ db_student_availability' =
         [ db_student_availability EXCEPT
             ![ureq.student_id] = @ \cup Range(ureq.availability_ids) ]
    /\ upc' = "select"
    /\ UNCHANGED <<db_students, db_student_courses,
                   db_study_groups, db_study_group_members, seq_study_groups>>
    /\ UNCHANGED <<gvars, mvars, rvars, ureq, cvars>>

\* a timeslot id without a row in timeslots (FOREIGN KEY timeslot_id):
\* sqlite3.IntegrityError, no row of the statement is stored and the
\* handler is left; the statements before it stay committed
UpsertAvailabilityRejected ==
    /\ upc = "ins_avail"
    /\ ~ (Range(ureq.availability_ids) \subseteq Timeslots)
    /\ upc' = "failed"
    /\ UNCHANGED <<gvars, dbvars, mvars, rvars, ureq, cvars>>

\* db.execute / db.executemany raise (sqlite3.OperationalError: the file is
\* locked or cannot be written); the statement's transaction is not
\* committed, the statements before it stay committed, and the exception
\* leaves the handler
UpsertStorageFails ==
    /\ upc \in {"update", "del_courses", "del_avail", "insert",
                "ins_courses", "ins_avail"}
    /\ upc' = "failed"
    /\ UNCHANGED <<gvars, dbvars, mvars, rvars, ureq, cvars>>

\* app.py 151-156: the student row is read back and sent (201); a failed
\* request ends with the error response
UpsertRespond ==
    /\ upc \in {"select", "failed"}
    /\ upc' = "idle"
    /\ ureq' = NoRequest
    /\ UNCHANGED <<gvars, dbvars, mvars, rvars, cvars>>

\* load_students_by_course lines 15-31, reached from run_matching line 183:
\* SELECT ... FROM students; without a row the mapping is empty
LoadStudents(p) ==
    /\ mpc[p] = "idle"
    /\ runs < MaxRuns
    /\ runs' = runs + 1
    /\ result' = [ result EXCEPT ![p] = <<>> ]
    /\ before' = [ before EXCEPT
                     ![p] = <<db_study_groups, db_study_group_members>> ]
    /\ IF db_students = <<>>
       THEN /\ by_course' = [ by_course EXCEPT ![p] = <<>> ]
            /\ mpc' = [ mpc EXCEPT ![p] = "respond" ]
            /\ UNCHANGED students_base
       ELSE /\ students_base' = [ students_base EXCEPT ![p] = db_students ]
            /\ mpc' = [ mpc EXCEPT ![p] = "load_courses" ]
            /\ UNCHANGED by_course
    /\ UNCHANGED <<course_idx, cur_groups, group_index, group_id, course_rows>>
    /\ UNCHANGED <<gvars, dbvars, rvars, uvars, upserts>>

\* lines 34-41: SELECT ... FROM student_courses; the rows of a student who
\* is not in students_base are skipped
LoadCourses(p) ==
    /\ mpc[p] = "load_courses"
    /\ course_rows' =
         [ course_rows EXCEPT
             ![p] = [ sid \in DOMAIN students_base[p] |->
                        db_student_courses[sid] ] ]
    /\ mpc' = [ mpc EXCEPT ![p] = "load_avail" ]
    /\ UNCHANGED <<by_course, course_idx, cur_groups, group_index, group_id,
                   result, before, students_base>>
    /\ UNCHANGED <<gvars, dbvars, rvars, uvars, cvars>>

\* a run that clears the tables before it looks at the loaded mapping
LoadAvailability_clear_first(p) ==
    /\ mpc[p] = "load_avail"
    /\ LET avail  == [ sid \in DOMAIN students_base[p] |->
                         db_student_availability[sid] ]
           loaded == load_students_by_course(students_base[p],
                                             course_rows[p], avail)
       IN  /\ by_course' = [ by_course EXCEPT ![p] = loaded ]
           /\ mpc' = [ mpc EXCEPT ![p] = IF loaded = <<>> THEN "respond"
                                         ELSE "del_members" ]
    /\ students_base' = [ students_base EXCEPT ![p] = <<>> ]
    /\ course_rows' = [ course_rows EXCEPT ![p] = <<>> ]
    /\ db_study_groups' = {}
    /\ db_study_group_members' = {}
    /\ UNCHANGED <<course_idx, cur_groups, group_index, group_id, result,
                   before>>
    /\ UNCHANGED <<db_students, db_student_courses, db_student_availability,
                   seq_study_groups>>
    /\ UNCHANGED <<gvars, rvars, uvars, cvars>>

\* lines 44-59 and run_matching lines 183-185: SELECT ... FROM
\* student_availability, the students are grouped by course, and an empty
\* mapping returns {}
LoadAvailability(p) ==
    /\ mpc[p] = "load_avail"
    /\ LET avail  == [ sid \in DOMAIN students_base[p] |->
                         db_student_availability[sid] ]
           loaded == load_students_by_course(students_base[p],
                                             course_rows[p], avail)
       IN  /\ by_course' = [ by_course EXCEPT ![p] = loaded ]
           /\ mpc' = [ mpc EXCEPT ![p] = IF loaded = <<>> THEN "respond"
                                         ELSE "del_members" ]
    /\ students_base' = [ students_base EXCEPT ![p] = <<>> ]
    /\ course_rows' = [ course_rows EXCEPT ![p] = <<>> ]
    /\ UNCHANGED <<course_idx, cur_groups, group_index, group_id, result,
                   before>>
    /\ UNCHANGED <<gvars, dbvars, rvars, uvars, cvars>>

\* line 188: db.execute("DELETE FROM study_group_members")
DeleteMembers(p) ==
    /\ mpc[p] = "del_members"
    /\ db_study_group_members' = {}
    /\ mpc' = [ mpc EXCEPT ![p] = "del_groups" ]
    /\ UNCHANGED <<db_students, db_student_courses, db_student_availability,
                   db_study_groups, seq_study_groups>>
    /\ UNCHANGED <<by_course, course_idx, cur_groups, group_index, group_id,
                   result, before, students_base, course_rows>>
    /\ UNCHANGED <<gvars, rvars, uvars, cvars>>

\* a clear that removes only the groups of the courses being recomputed
DeleteGroups_loaded_courses(p) ==
    /\ mpc[p] = "del_groups"
    /\ db_study_groups' =
         { g \in db_study_groups :
             \A k \in DOMAIN by_course[p] : by_course[p][k][1] # g.course_id }
    /\ db_study_group_members' =
         { m \in db_study_group_members :
             \E g \in db_study_groups' : g.id = m[1] }
    /\ course_idx' = [ course_idx EXCEPT ![p] = 1 ]
    /\ cur_groups' = [ cur_groups EXCEPT
                         ![p] = form_groups_for_course(by_course[p][1][2]) ]
    /\ result' = [ result EXCEPT ![p] = << <<by_course[p][1][1], <<>>>> >> ]
    /\ group_index' = [ group_index EXCEPT ![p] = 1 ]
    /\ mpc' = [ mpc EXCEPT ![p] = "ins_group" ]
    /\ UNCHANGED <<db_students, db_student_courses, db_student_availability,
                   seq_study_groups>>
    /\ UNCHANGED <<by_course, group_id, before, students_base, course_rows>>
    /\ UNCHANGED <<gvars, rvars, uvars, cvars>>

\* lines 189-196: db.execute("DELETE FROM study_groups") (membership rows
\* go with their group, ON DELETE CASCADE), then the first course is entered
DeleteGroups(p) ==
    /\ mpc[p] = "del_groups"
    /\ db_study_groups' = {}
    /\ db_study_group_members' = {}
    /\ course_idx' = [ course_idx EXCEPT ![p] = 1 ]
    /\ cur_groups' = [ cur_groups EXCEPT
                         ![p] = form_groups_for_course(by_course[p][1][2]) ]
    /\ result' = [ result EXCEPT ![p] = << <<by_course[p][1][1], <<>>>> >> ]
    /\ group_index' = [ group_index EXCEPT ![p] = 1 ]
    /\ mpc' = [ mpc EXCEPT ![p] = "ins_group" ]
    /\ UNCHANGED <<db_students, db_student_courses, db_student_availability,
                   seq_study_groups>>
    /\ UNCHANGED <<by_course, group_id, before, students_base, course_rows>>
    /\ UNCHANGED <<gvars, rvars, uvars, cvars>>

\* lines 198-201: INSERT INTO study_groups; lastrowid is the new id
InsertGroup(p) ==
    /\ mpc[p] = "ins_group"
    /\ seq_study_groups' = seq_study_groups + 1
    /\ db_study_groups' = db_study_groups \cup
           { [id |-> seq_study_groups + 1,
              course_id |-> by_course[p][course_idx[p]][1],
              group_index |-> group_index[p]] }
    /\ group_id' = [ group_id EXCEPT ![p] = seq_study_groups + 1 ]
    /\ mpc' = [ mpc EXCEPT ![p] = "ins_members" ]
    /\ UNCHANGED <<db_students, db_student_courses, db_student_availability,
                   db_study_group_members>>
    /\ UNCHANGED <<by_course, course_idx, cur_groups, group_index, result,
                   before, students_base, course_rows>>
    /\ UNCHANGED <<gvars, rvars, uvars, cvars>>

member_ids_of(group) == [ k \in DOMAIN group |-> group[k].id ]

\* lines 202-208 and the loop heads 193-197: db.executemany of the
\* membership rows in one transaction, result[course_id].append(member_ids),
\* then the next group, the next course, or the return of line 210.
\* The rows need their group row (FOREIGN KEY group_id): see MembersRejected.
InsertMembers(p) ==
    /\ mpc[p] = "ins_members"
    /\ \E g \in db_study_groups : g.id = group_id[p]
    /\ LET ci         == course_idx[p]
           member_ids == member_ids_of(cur_groups[p][group_index[p]])
           res        == [ result[p] EXCEPT
                             ![ci] = <<result[p][ci][1],
                                       Append(result[p][ci][2], member_ids)>> ]
       IN  /\ db_study_group_members' = db_study_group_members \cup
                  { <<group_id[p], member_ids[k]>> : k \in DOMAIN member_ids }
           /\ IF group_index[p] < Len(cur_groups[p])
              THEN /\ group_index' = [ group_index EXCEPT ![p] = @ + 1 ]
                   /\ result' = [ result EXCEPT ![p] = res ]
                   /\ mpc' = [ mpc EXCEPT ![p] = "ins_group" ]
                   /\ UNCHANGED <<course_idx, cur_groups>>
              ELSE IF ci < Len(by_course[p])
              THEN /\ course_idx' = [ course_idx EXCEPT ![p] = ci + 1 ]
                   /\ cur_groups' =
                        [ cur_groups EXCEPT
                            ![p] = form_groups_for_course(by_course[p][ci + 1][2]) ]
                   /\ result' = [ result EXCEPT
                                    ![p] = Append(res, <<by_course[p][ci + 1][1],
                                                         <<>>>>) ]
                   /\ group_index' = [ group_index EXCEPT ![p] = 1 ]
                   /\ mpc' = [ mpc EXCEPT ![p] = "ins_group" ]
              ELSE /\ result' = [ result EXCEPT ![p] = res ]
                   /\ mpc' = [ mpc EXCEPT ![p] = "respond" ]
                   /\ UNCHANGED <<course_idx, cur_groups, group_index>>
    /\ UNCHANGED <<db_students, db_student_courses, db_student_availability,
                   db_study_groups, seq_study_groups>>
    /\ UNCHANGED <<by_course, group_id, before, students_base, course_rows>>
    /\ UNCHANGED <<gvars, rvars, uvars, cvars>>

\* the membership INSERT of a group whose row another run has deleted in
\* the meantime: sqlite3.IntegrityError, nothing is written
MembersRejected(p) ==
    /\ mpc[p] = "ins_members"
    /\ ~ \E g \in db_study_groups : g.id = group_id[p]
    /\ mpc' = [ mpc EXCEPT ![p] = "failed" ]
    /\ UNCHANGED <<by_course, course_idx, cur_groups, group_index, group_id,
                   result, before, students_base, course_rows>>
    /\ UNCHANGED <<gvars, dbvars, rvars, uvars, cvars>>

\* db.execute / db.executemany raise (sqlite3.OperationalError: the file is
\* locked or cannot be written); the statement's transaction is not
\* committed and the exception leaves run_matching and the handler
StorageFails(p) ==
    /\ mpc[p] \in {"del_members", "del_groups", "ins_group", "ins_members"}
    /\ mpc' = [ mpc EXCEPT ![p] = "failed" ]
    /\ UNCHANGED <<by_course, course_idx, cur_groups, group_index, group_id,
                   result, before, students_base, course_rows>>
    /\ UNCHANGED <<gvars, dbvars, rvars, uvars, cvars>>

\* app.run_match lines 165-221: the response is built from the tables and
\* the request ends (a failed request ends with the error response)
Respond(p) ==
    /\ mpc[p] \in {"respond", "failed"}
    /\ mpc' = [ mpc EXCEPT ![p] = "idle" ]
    /\ by_course' = [ by_course EXCEPT ![p] = <<>> ]
    /\ course_idx' = [ course_idx EXCEPT ![p] = 0 ]
    /\ cur_groups' = [ cur_groups EXCEPT ![p] = <<>> ]
    /\ group_index' = [ group_index EXCEPT ![p] = 0 ]
    /\ group_id' = [ group_id EXCEPT ![p] = 0 ]
    /\ result' = [ result EXCEPT ![p] = <<>> ]
    /\ before' = [ before EXCEPT ![p] = <<{}, {}>> ]
    /\ UNCHANGED <<students_base, course_rows>>
    /\ UNCHANGED <<gvars, dbvars, rvars, uvars, cvars>>

\* app.get_groups lines 227-241: the first query; no group row, empty answer
FetchGroups ==
    /\ rpc = "idle"
    /\ group_rows' = db_study_groups
    /\ view' = {}
    /\ rpc' = IF db_study_groups = {} THEN "answer" ELSE "members"
    /\ UNCHANGED <<gvars, dbvars, mvars, uvars, cvars>>

\* app.get_groups lines 243-279: the second query and the answer, one entry
\* per group row with the members found for its id
FetchMembers ==
    /\ rpc = "members"
    /\ view' = { [group_id |-> g.id, course_id |-> g.course_id,
                  group_index |-> g.group_index,
                  members |-> { m[2] : m \in { x \in db_study_group_members :
                                                 x[1] = g.id } }] :
                 g \in group_rows }
    /\ rpc' = "answer"
    /\ UNCHANGED group_rows
    /\ UNCHANGED <<gvars, dbvars, mvars, uvars, cvars>>

\* the answer is sent and the request ends
SendGroups ==
    /\ rpc = "answer"
    /\ rpc' = "idle"
    /\ group_rows' = {}
    /\ view' = {}
    /\ UNCHANGED <<gvars, dbvars, mvars, uvars, cvars>>

\* the request body of a registration: the email of the first student or
\* the next new one
Register ==
    \E email \in 1..MaxStudents, raw_size \in PrefInputs,
       course_ids \in CourseInputs, availability_ids \in AvailInputs :
        /\ email \in {1, Len(db_students) + 1}
        /\ UpsertBegin(email, raw_size, course_ids, availability_ids)

\* the statements of a registration in progress
UpsertStep ==
    \/ UpsertUpdate
    \/ UpsertDeleteCourses
    \/ UpsertDeleteAvailability
    \/ UpsertInsert
    \/ UpsertInsertCourses
    \/ UpsertCoursesRejected
    \/ UpsertInsertAvailability
    \/ UpsertAvailabilityRejected
    \/ UpsertStorageFails
    \/ UpsertRespond

\* Spec: a registration thread, two POST /api/match threads and a reader
\* race, every statement of every handler a step of its own.  The match
\* threads are interchangeable, so a request takes the lowest idle one.
SNext ==
    \/ (upserts < MaxRaceUpserts /\ Register)
    \/ UpsertStep
    \/ \E p \in Procs :
          (\A q \in Procs : q < p => mpc[q] # "idle") /\ LoadStudents(p)
    \/ \E p \in Procs : LoadCourses(p)
    \/ \E p \in Procs : LoadAvailability(p)
    \/ \E p \in Procs : DeleteMembers(p)
    \/ \E p \in Procs : DeleteGroups(p)
    \/ \E p \in Procs : InsertGroup(p)
    \/ \E p \in Procs : InsertMembers(p)
    \/ \E p \in Procs : MembersRejected(p)
    \/ \E p \in Procs : StorageFails(p)
    \/ \E p \in Procs : Respond(p)
    \/ FetchGroups
    \/ FetchMembers
    \/ SendGroups

RaceInit ==
    /\ students = <<>>
    /\ GIdle
    /\ \E n \in {0, RaceStudents} : Registered(n)
    /\ SIdle

Spec == RaceInit /\ [][SNext]_vars

\* the run is not started or is between the reads of its load
Loading == mpc[1] \in {"idle", "load_courses", "load_avail"}

\* SpecSerial: one POST /api/match request at a time, racing with the
\* statements of the registrations.  A registration writes only the
\* students, student_courses and student_availability tables, which a run
\* reads in its load and never again; its statements commute with the
\* statements of a run past the load, so they are taken while the run is
\* idle or loading.
SerialNext ==
    \/ (Loading /\ Register)
    \/ (Loading /\ UpsertStep)
    \/ LoadStudents(1)
    \/ LoadCourses(1)
    \/ LoadAvailability(1)
    \/ DeleteMembers(1)
    \/ DeleteGroups(1)
    \/ InsertGroup(1)
    \/ InsertMembers(1)
    \/ StorageFails(1)
    \/ Respond(1)

SpecSerial == SInit /\ [][SerialNext]_vars

\* ------------------------------------------------------------------------
\* Properties of form_groups_for_course (SpecGroups)
\* ------------------------------------------------------------------------

Returned == pc = "done"

\* positions <<g, k>> of the returned groups
Places == { <<g, k>> \in (DOMAIN groups) \X (DOMAIN students) :
              k \in DOMAIN groups[g] }

\* C1 (completeness): the returned groups are a partition of the roster:
\* every student of the roster is at exactly one place of exactly one group,
\* and every member of a group is a student of the roster.
C1_Partition ==
    Returned =>
        /\ \A i \in DOMAIN students :
              Cardinality({ pl \in Places :
                              groups[pl[1]][pl[2]] = students[i] }) = 1
        /\ \A pl \in Places : groups[pl[1]][pl[2]] \in Range(students)

C1_Witness ==
    /\ Returned
    /\ Len(students) >= 4
    /\ Len(groups) >= 2
    /\ Cardinality(Places) = Len(students)

\* C2 (bounded singleton): a returned group of size 1 exists only when the
\* roster has exactly one student.
C2_NoSingleton ==
    Returned =>
        ((\E g \in DOMAIN groups : Len(groups[g]) = 1) => Len(students) = 1)

\* a roster of three with target size 2: the loop forms 2 + 1, one group of
\* three is returned
C2_Witness ==
    /\ Returned
    /\ Len(students) = 3
    /\ target_size = 2
    /\ Len(groups) = 1
    /\ Len(groups[1]) = 3

\* the unassigned ids at the moment the last group was started
UnassignedAtSeed ==
    Range(set_list(unassigned)) \cup Range(current_group_ids)

\* sum of the scores of sid against the other ids of the set un
TotalAgainst(sid, un) ==
    SumSeq([ i \in DOMAIN students |->
               IF students[i].id \in un /\ students[i].id # sid
               THEN scores[<<sid, students[i].id>>] ELSE 0 ])

PositionOf(sid) == CHOOSE i \in DOMAIN students : students[i].id = sid

GroupStarted == pc = "loop" /\ groups # <<>>

\* C4 (seed selection): the seed of a group has the maximal total score
\* against the other unassigned students, and among the students of that
\* maximal total it is the first of the roster's list order.
C4_SeedFirstInRoster ==
    GroupStarted =>
        LET un   == UnassignedAtSeed
            seed == current_group_ids[1]
        IN  /\ seed \in un
            /\ \A s \in un : TotalAgainst(s, un) <= TotalAgainst(seed, un)
            /\ \A s \in un : TotalAgainst(s, un) = TotalAgainst(seed, un)
                                => PositionOf(seed) <= PositionOf(s)

ScoresBuilt == pc # "start" /\ Len(students) >= 2

Overlap(a, b) ==
    Cardinality(a.availability_timeslot_ids \cap b.availability_timeslot_ids)

SizeDiff(a, b) ==
    IF a.preferred_group_size >= b.preferred_group_size
    THEN a.preferred_group_size - b.preferred_group_size
    ELSE b.preferred_group_size - a.preferred_group_size

Penalty(a, b) == IF SizeDiff(a, b) >= 2 THEN SizeDiff(a, b) - 1 ELSE 0

\* C5 (compatibility score): the score of two students is
\* max(0, 5 + |common slots| - p), p = d - 1 for d >= 2 and 0 otherwise;
\* it is never negative, and d of 0 or 1 costs nothing.
C5_Score ==
    ScoresBuilt =>
        \A i, j \in DOMAIN students :
            i # j =>
                LET a   == students[i]
                    b   == students[j]
                    raw == 5 + Overlap(a, b) - Penalty(a, b)
                    sc  == scores[<<a.id, b.id>>]
                IN  /\ sc = IF raw < 0 THEN 0 ELSE raw
                    /\ sc >= 0
                    /\ SizeDiff(a, b) <= 1 => sc = 5 + Overlap(a, b)

\* a pair with a penalty that leaves a positive score, and a pair whose
\* penalty is cut off at 0
C5_Witness ==
    /\ ScoresBuilt
    /\ \E i, j \in DOMAIN students :
          /\ SizeDiff(students[i], students[j]) >= 2
          /\ scores[<<students[i].id, students[j].id>>] > 0
    /\ \E i, j \in DOMAIN students :
          /\ 5 + Overlap(students[i], students[j])
               - Penalty(students[i], students[j]) < 0
          /\ scores[<<students[i].id, students[j].id>>] = 0

Clamped(i) ==
    LET v == students[i].preferred_group_size
    IN  IF v < 2 THEN 2 ELSE IF v > 5 THEN 5 ELSE v

\* the k-th smallest clamped preference: fewer than k are below it and at
\* least k are not above it
KthSmallest(k) ==
    CHOOSE v \in 2..5 :
        /\ Cardinality({ i \in DOMAIN students : Clamped(i) < v }) < k
        /\ Cardinality({ i \in DOMAIN students : Clamped(i) <= v }) >= k

\* C6 (target size): the target size is an integer of 2..5, the median of
\* the clamped preferences; for an even roster the two middle values are
\* averaged and the fraction is dropped.
C6_TargetSize ==
    ScoresBuilt =>
        LET n  == Len(students)
            lo == KthSmallest(n \div 2)
            hi == KthSmallest((n \div 2) + 1)
        IN  /\ target_size \in 2..5
            /\ n % 2 = 1 => target_size = hi
            /\ n % 2 = 0 => /\ 2 * target_size <= lo + hi
                            /\ lo + hi < 2 * target_size + 2

\* an even roster whose middle values differ by an odd amount, with a
\* stored preference outside 2..5
C6_Witness ==
    /\ ScoresBuilt
    /\ Len(students) % 2 = 0
    /\ (KthSmallest(Len(students) \div 2)
          + KthSmallest((Len(students) \div 2) + 1)) % 2 = 1
    /\ \E i \in DOMAIN students : students[i].preferred_group_size \notin 2..5

\* ------------------------------------------------------------------------
\* Properties of run_matching (SpecSerial, Spec)
\* ------------------------------------------------------------------------

MembersOfGroup(gid) ==
    { m[2] : m \in { x \in db_study_group_members : x[1] = gid } }

\* the group tables hold exactly the groups of res, a sequence of
\* <<course_id, member id lists>>: indices 1..k once each per course, the
\* memberships of group i the i-th list, and nothing else
PersistedIs(res) ==
    /\ \A g \in db_study_groups : \E k \in DOMAIN res : res[k][1] = g.course_id
    /\ \A m \in db_study_group_members : \E g \in db_study_groups : g.id = m[1]
    /\ \A k \in DOMAIN res :
          LET rows == { g \in db_study_groups : g.course_id = res[k][1] }
          IN  /\ Cardinality(rows) = Len(res[k][2])
              /\ \A i \in DOMAIN res[k][2] :
                    \E g \in rows :
                        /\ g.group_index = i
                        /\ MembersOfGroup(g.id) = Range(res[k][2][i])
                        /\ Cardinality(MembersOfGroup(g.id)) = Len(res[k][2][i])

RunReturned == mpc[1] = "respond"

\* C7 as claimed (full replace): after every run that completes without
\* error, the persisted groups are exactly the groups the run returned.
C7_FullReplaceAnyRun == RunReturned => PersistedIs(result[1])

\* C7 amended: after a run that loaded at least one course roster and
\* completes without error, the persisted groups are exactly the groups the
\* run returned.
C7_FullReplace ==
    (RunReturned /\ by_course[1] # <<>>) => PersistedIs(result[1])

\* a run that returns two groups for one course, after an earlier run had
\* stored a group for a course that has no enrolled student any more
C7_Witness ==
    /\ RunReturned
    /\ by_course[1] # <<>>
    /\ \E k \in DOMAIN result[1] : Len(result[1][k][2]) >= 2
    /\ \E g \in before[1][1] :
          \A k \in DOMAIN result[1] : result[1][k][1] # g.course_id

\* the complete result of a run over the loaded rosters
FullResult(bc) ==
    [ k \in DOMAIN bc |->
        <<bc[k][1],
          LET gs == form_groups_for_course(bc[k][2])
          IN  [ i \in DOMAIN gs |-> member_ids_of(gs[i]) ]>> ]

\* C8 (no partial persistence): when a storage operation of a run fails,
\* the persisted groups are as they were before the run or are the complete
\* new result.
C8_AllOrNothing ==
    mpc[1] = "failed" =>
        \/ <<db_study_groups, db_study_group_members>> = before[1]
        \/ PersistedIs(FullResult(by_course[1]))

InCriticalSection(p) == mpc[p] \in {"del_groups", "ins_group", "ins_members"}

\* C9 (serialized runs): at most one run is between its clear and its last
\* write, no answer of GET /api/groups shows a group whose memberships were
\* cleared, and no two stored groups share course and group_index.
C9_Serialized ==
    /\ Cardinality({ p \in Procs : InCriticalSection(p) }) <= 1
    /\ rpc = "answer" => \A v \in view : v.members # {}
    /\ \A g, h \in db_study_groups :
          (g.course_id = h.course_id /\ g.group_index = h.group_index) => g = h

\* C10 (empty input): a run whose loaded roster mapping is empty returns the
\* empty mapping and leaves the persisted groups and memberships as they
\* were.
C10_EmptyUntouched ==
    (RunReturned /\ by_course[1] = <<>>) =>
        /\ result[1] = <<>>
        /\ <<db_study_groups, db_study_group_members>> = before[1]

\* students are registered, none is enrolled any more, groups of an earlier
\* run are stored
C10_Witness ==
    /\ RunReturned
    /\ by_course[1] = <<>>
    /\ db_students # <<>>
    /\ db_study_groups # {}
    /\ db_study_group_members # {}

\* ------------------------------------------------------------------------
\* Properties of the leftover merge and of the group sizes (SpecWide)
\* ------------------------------------------------------------------------

\* the step that leaves the loop and returns
LoopLeft == pc = "loop" /\ pc' = "done"

\* total score of the student lone against the members of group
TotalWith(lone, group) ==
    SumSeq([ k \in DOMAIN group |-> scores[<<lone.id, group[k].id>>] ])

\* the average score of lone with group g is below the one with group h
AvgBelow(lone, g, h) ==
    TotalWith(lone, g) * Len(h) < TotalWith(lone, h) * Len(g)

LastIsLone(grps) == Len(grps) >= 2 /\ Len(grps[Len(grps)]) = 1

\* C11 (leftover reconciliation): when the loop formed two or more groups
\* and the last has one member, that group is removed and its student
\* becomes the last member of the remaining group of maximal average score
\* with the student, the earliest such group on a tie; in every other case
\* the groups of the loop are returned as they are.
C11_Leftover ==
    [][ LoopLeft =>
          IF LastIsLone(groups)
          THEN LET lone == groups[Len(groups)][1]
                   rest == SubSeq(groups, 1, Len(groups) - 1)
               IN  \E b \in DOMAIN rest :
                      /\ \A j \in DOMAIN rest : ~AvgBelow(lone, rest[b], rest[j])
                      /\ \A j \in 1..(b - 1) : AvgBelow(lone, rest[j], rest[b])
                      /\ groups' = [ rest EXCEPT ![b] = Append(rest[b], lone) ]
          ELSE groups' = groups ]_vars

\* the group the lone student was merged into, without that student
BeforeMerge(g) == SubSeq(groups[g], 1, Len(groups[g]) - 1)

\* after the return: the last group formed by the loop had one member and
\* the roster has more than one student, so the merge has acted
Merged == Returned /\ Len(students) >= 2 /\ Len(current_group_ids) = 1

\* three groups remained; the student joined the second, whose average
\* is above the averages of the first and of the third, which are equal
C11_Witness ==
    /\ Merged
    /\ Len(groups) = 3
    /\ LET lone == by_id(students, current_group_ids[1])
       IN  /\ groups[2][Len(groups[2])] = lone
           /\ AvgBelow(lone, groups[1], BeforeMerge(2))
           /\ AvgBelow(lone, groups[3], BeforeMerge(2))
           /\ ~AvgBelow(lone, groups[1], groups[3])
           /\ ~AvgBelow(lone, groups[3], groups[1])

Sizes == [ g \in DOMAIN groups |-> Len(groups[g]) ]

\* C12 (group-size shape): while the loop runs every group but the last has
\* target_size members and the last has target_size members unless nobody
\* is unassigned; in the result for a roster of n >= 2 every group has 2 to
\* target_size + 1 members, the sizes sum to n, and at most one group has a
\* size other than target_size.
C12_Shape ==
    /\ GroupStarted =>
          /\ \A g \in 1..(Len(groups) - 1) : Sizes[g] = target_size
          /\ set_nonempty(unassigned) => Sizes[Len(groups)] = target_size
    /\ (Returned /\ Len(students) >= 2) =>
          /\ \A g \in DOMAIN groups : Sizes[g] \in 2..(target_size + 1)
          /\ SumSeq(Sizes) = Len(students)
          /\ Cardinality({ g \in DOMAIN groups : Sizes[g] # target_size }) <= 1

\* seven students and target size 3 return the sizes 3 and 4, and a member
\* added by the growth of a group scores 0 with every earlier member of
\* it, so that every candidate of that step had the average 0
C12_Witness ==
    /\ Returned
    /\ Len(students) = 7
    /\ target_size = 3
    /\ Range(Sizes) = {3, 4}
    /\ \E g \in DOMAIN groups :
          \E k \in 2..target_size :
             \A j \in 1..(k - 1) :
                scores[<<groups[g][k].id, groups[g][j].id>>] = 0

====
